---- MODULE Spec2Model ----
(***************************************************************************)
(* Media reconciliation engine and temp-file janitor of atstore-api-v2:    *)
(* MediaCleanSchedulerService (services/scheduler.service.ts) together     *)
(* with the parts of the media controller that write the same stores.      *)
(***************************************************************************)
EXTENDS Integers, Sequences, FiniteSets, TLC

(* ------------------------------------------------------------------ *)
(* Storage keys.  A key "a/b/c/<rest>" is the record of its directory  *)
(* segments and a number standing for "<ownerId>/<generatedFileName>". *)
(* ------------------------------------------------------------------ *)

PRODUCT_IMAGE_PREFIX == <<"img", "product">>

PRODUCT_THUMBNAIL_PREFIX == <<"img", "product", "thumbnail">>

CATEGORY_THUMBNAIL_PREFIX == <<"img", "category", "thumbnail">>

PAGE_MEDIA_PREFIX == <<"data">>

EXTERNAL_URL == <<"https:", "cdn.example.com">>

\* faulty variant: the page media prefix is listed as well
ManagedPrefixes_WithPages ==
    <<PRODUCT_IMAGE_PREFIX, PRODUCT_THUMBNAIL_PREFIX, CATEGORY_THUMBNAIL_PREFIX, PAGE_MEDIA_PREFIX>>

\* the prefixes getMediaKeysFromR2 lists, in its order
ManagedPrefixes == <<PRODUCT_IMAGE_PREFIX, PRODUCT_THUMBNAIL_PREFIX, CATEGORY_THUMBNAIL_PREFIX>>

Key(dir, n) == [dir |-> dir, file |-> n]

\* null / undefined / unset thumbnail
NoKey == Key(<<>>, 0)

\* String.prototype.startsWith on a key and a prefix constant
StartsWith(key, prefix) ==
    /\ Len(prefix) <= Len(key.dir)
    /\ SubSeq(key.dir, 1, Len(prefix)) = prefix

Truthy(key) == key # NoKey

Range(s) == {s[x] : x \in 1..Len(s)}

\* Array.prototype.filter
RECURSIVE FilterSeq(_, _)
FilterSeq(s, keep) ==
    IF Len(s) = 0 THEN <<>>
    ELSE IF Len(s) = 1 THEN (IF s[1] \in keep THEN s ELSE <<>>)
    ELSE LET half == Len(s) \div 2
         IN FilterSeq(SubSeq(s, 1, half), keep) \o FilterSeq(SubSeq(s, half + 1, Len(s)), keep)

\* Set.prototype.add on an insertion-ordered Set<string>
SetAdd(s, k) == IF k \in Range(s) THEN s ELSE Append(s, k)

RECURSIVE SetAddAll(_, _)
SetAddAll(s, page) ==
    IF page = <<>> THEN s ELSE SetAddAll(SetAdd(s, Head(page)), Tail(page))

Min(a, b) == IF a < b THEN a ELSE b

(* ------------------------------------------------------------------ *)
(* Bounds of the model                                                 *)
(* ------------------------------------------------------------------ *)

\* concurrent callers of cleanupMediaFiles (cron callback, admin requests)
MaxInvocations == 2

\* updates left in flight by aborted calls when the next call is accepted
MaxLeftover == 0

\* clock ticks of the temp-file model
MaxTicks == 2

\* longest orphan list of the batch model
MaxOrphans == 2500

Invocations == 1..MaxInvocations

\* who calls: the daily cron callback, and admin requests to POST /media/cleanup
Via == [i \in Invocations |-> IF i = 1 THEN "cron" ELSE "manual"]

ProductIds == {"p1"}

CategoryIds == {"c1"}

ImageKeys == {Key(PRODUCT_IMAGE_PREFIX, n) : n \in {1, 2}}

ThumbKeys == {Key(PRODUCT_THUMBNAIL_PREFIX, n) : n \in {1}}

CatKeys == {Key(CATEGORY_THUMBNAIL_PREFIX, n) : n \in {1}}

PageKeys == {Key(PAGE_MEDIA_PREFIX, 1)}

ExternalRefs == {Key(EXTERNAL_URL, 1)}

AllKeys == ImageKeys \cup ThumbKeys \cup CatKeys \cup PageKeys \cup ExternalRefs

\* objects the bucket can hold (an external URL is never a bucket object)
BucketKeys == ImageKeys \cup ThumbKeys \cup CatKeys \cup PageKeys

\* ListObjectsV2 MaxKeys
MaxKeys == 1000

\* deleteOrphanedR2Files batchSize
batchSize == 1000

(* ------------------------------------------------------------------ *)
(* State                                                               *)
(* ------------------------------------------------------------------ *)

VARIABLES
    products,             \* Product collection: id -> [thumbnail, images]
    categories,           \* Category collection: id -> [thumbnail]
    r2Objects,            \* keys of the objects in the R2 bucket
    isCleanupRunning,     \* MediaCleanSchedulerService.isCleanupRunning
    isTempCleanupRunning, \* MediaCleanSchedulerService.isTempCleanupRunning
    run,                  \* per caller: the locals of its cleanupMediaFiles call
    inflight,             \* updateMany calls issued and not yet completed
    tempDir,              \* uploads/temp: whether it exists, and its entries
    now,                  \* the clock (Date.now(), milliseconds)
    tempRun,              \* the last cleanupOldTempFiles call: what it saw and returned
    upload                \* the locals of an upload request of the media controller

mediaVars == <<products, categories, r2Objects, isCleanupRunning, run, inflight>>

tempVars == <<isTempCleanupRunning, tempDir, now, tempRun>>

vars == <<products, categories, r2Objects, isCleanupRunning, isTempCleanupRunning, run, inflight,
          tempDir, now, tempRun, upload>>

ZeroResult == [orphanedR2Files |-> 0, danglingSavedReferences |-> 0]

\* locals of a call that has not started; calls and the fields from outcome on
\* are history: the I/O calls it issued, how it ended, which of its I/O calls
\* failed, whether anybody else changed the stores since it was accepted,
\* whether it was accepted right after a clean run, whether a document update
\* failed in the call that ended before it, and what it started from
IdleRun ==
    [self |-> 0, pc |-> "idle", via |-> "none",
     dbMediaKeys |-> {}, r2MediaKeys |-> <<>>,
     prefixIdx |-> 0, continuationToken |-> NoKey,
     orphanedR2Keys |-> <<>>, i |-> 0, danglingDbKeys |-> {},
     result |-> ZeroResult, calls |-> <<>>,
     outcome |-> "none", failed |-> {}, quiet |-> TRUE, after |-> FALSE, afterFailedUpdate |-> FALSE,
     startProducts |-> <<>>, startCategories |-> <<>>, startBucket |-> {}]

\* one I/O call as the run issued it
Call(op, prefix, token, keys) == [op |-> op, prefix |-> prefix, token |-> token, keys |-> keys]

(* ------------------------------------------------------------------ *)
(* ReferenceCollector: getMediaKeysFromDatabase                        *)
(* ------------------------------------------------------------------ *)

\* filter of Product.find
ProductQueryMatches(p) ==
    \/ p.images # <<>>
    \/ StartsWith(p.thumbnail, PRODUCT_IMAGE_PREFIX)
    \/ StartsWith(p.thumbnail, PRODUCT_THUMBNAIL_PREFIX)

\* faulty variant: every gallery value is added, whatever it starts with
ProductMediaKeys_Unfiltered(p) ==
    (IF /\ Truthy(p.thumbnail)
        /\ \/ StartsWith(p.thumbnail, PRODUCT_IMAGE_PREFIX)
           \/ StartsWith(p.thumbnail, PRODUCT_THUMBNAIL_PREFIX)
     THEN {p.thumbnail} ELSE {})
    \cup Range(p.images)

\* productImages.forEach: the keys one product contributes
ProductMediaKeys(p) ==
    (IF /\ Truthy(p.thumbnail)
        /\ \/ StartsWith(p.thumbnail, PRODUCT_IMAGE_PREFIX)
           \/ StartsWith(p.thumbnail, PRODUCT_THUMBNAIL_PREFIX)
     THEN {p.thumbnail} ELSE {})
    \cup {k \in Range(p.images) : StartsWith(k, PRODUCT_IMAGE_PREFIX)}

ProductKeysFromDatabase(prods) ==
    UNION {ProductMediaKeys(prods[id]) : id \in {x \in DOMAIN prods : ProductQueryMatches(prods[x])}}

\* filter of Category.find and categoryThumbnails.forEach
CategoryKeysFromDatabase(cats) ==
    {cats[id].thumbnail : id \in {x \in DOMAIN cats :
        /\ StartsWith(cats[x].thumbnail, CATEGORY_THUMBNAIL_PREFIX)
        /\ Truthy(cats[x].thumbnail)}}

(* ------------------------------------------------------------------ *)
(* ObjectLister: the bucket's ListObjectsV2                            *)
(* ------------------------------------------------------------------ *)

\* listing order of the bucket (binary order of the key strings)
DirRank(dir) ==
    CASE dir = PAGE_MEDIA_PREFIX -> 0
      [] dir = CATEGORY_THUMBNAIL_PREFIX -> 1
      [] dir = PRODUCT_IMAGE_PREFIX -> 2
      [] dir = PRODUCT_THUMBNAIL_PREFIX -> 3
      [] OTHER -> 4

KeyLess(a, b) ==
    \/ DirRank(a.dir) < DirRank(b.dir)
    \/ DirRank(a.dir) = DirRank(b.dir) /\ a.file < b.file

\* the keys of S in listing order
SortKeys(S) ==
    [n \in 1..Cardinality(S) |->
        CHOOSE k \in S : Cardinality({j \in S : KeyLess(j, k)}) = n - 1]

\* keys a list call with this prefix and continuation token still has to return
ListRemaining(bucket, prefix, token) ==
    SortKeys({k \in bucket : StartsWith(k, prefix) /\ (Truthy(token) => KeyLess(token, k))})

\* response of one list call that returns the next n keys
ListResponse(bucket, prefix, token, n) ==
    LET rest == ListRemaining(bucket, prefix, token)
    IN [Contents |-> SubSeq(rest, 1, n),
        NextContinuationToken |-> IF n < Len(rest) THEN rest[n] ELSE NoKey]

\* page sizes the bucket may answer with: a full page or a short one
PageSizes(bucket, prefix, token) ==
    LET m == Min(MaxKeys, Len(ListRemaining(bucket, prefix, token)))
    IN {m, Min(1, m)}

(* ------------------------------------------------------------------ *)
(* ReferenceCleaner: cleanupDanglingDatabaseReferences                 *)
(* ------------------------------------------------------------------ *)

\* the updateMany calls pushed to updatePromises for a dangling key list
CleanupGroups(danglingKeys) ==
    LET productImageKeys == {k \in danglingKeys : StartsWith(k, PRODUCT_IMAGE_PREFIX)}
        productThumbnailKeys == {k \in danglingKeys : StartsWith(k, PRODUCT_THUMBNAIL_PREFIX)}
        categoryThumbnailKeys == {k \in danglingKeys : StartsWith(k, CATEGORY_THUMBNAIL_PREFIX)}
    IN (IF productImageKeys # {}
        THEN {[group |-> "pullProductImages", keys |-> productImageKeys]} ELSE {})
       \cup
       (IF productThumbnailKeys # {}
        THEN {[group |-> "nullProductThumbnail", keys |-> productThumbnailKeys]} ELSE {})
       \cup
       (IF categoryThumbnailKeys # {}
        THEN {[group |-> "nullCategoryThumbnail", keys |-> categoryThumbnailKeys]} ELSE {})

\* the order in which the updates are pushed to updatePromises
GroupOrder == <<"pullProductImages", "nullProductThumbnail", "nullCategoryThumbnail">>

SortGroups(groups) ==
    LET present == {n \in 1..3 : \E g \in groups : g.group = GroupOrder[n]}
        nth(m) == CHOOSE n \in present : Cardinality({x \in present : x < n}) = m - 1
    IN [m \in 1..Cardinality(present) |->
          LET g == CHOOSE g \in groups : g.group = GroupOrder[nth(m)]
          IN Call(g.group, <<>>, NoKey, SortKeys(g.keys))]

\* faulty variant: the gallery of a matching product is replaced by an empty one
PullProductImages_Clobber(prods, keys) ==
    [id \in DOMAIN prods |->
        IF Range(prods[id].images) \cap keys # {}
        THEN [prods[id] EXCEPT !.images = <<>>]
        ELSE prods[id]]

\* Product.updateMany({images: {$in: keys}}, {$pull: {images: {$in: keys}}})
PullProductImages(prods, keys) ==
    [id \in DOMAIN prods |->
        IF Range(prods[id].images) \cap keys # {}
        THEN [prods[id] EXCEPT !.images = FilterSeq(@, Range(@) \ keys)]
        ELSE prods[id]]

\* updateMany({thumbnail: {$in: keys}}, {$set: {thumbnail: null}})
NullThumbnail(docs, keys) ==
    [id \in DOMAIN docs |->
        IF docs[id].thumbnail \in keys
        THEN [docs[id] EXCEPT !.thumbnail = NoKey]
        ELSE docs[id]]

ProductsAfterUpdate(prods, op) ==
    CASE op.group = "pullProductImages" -> PullProductImages(prods, op.keys)
      [] op.group = "nullProductThumbnail" -> NullThumbnail(prods, op.keys)
      [] OTHER -> prods

CategoriesAfterUpdate(cats, op) ==
    IF op.group = "nullCategoryThumbnail" THEN NullThumbnail(cats, op.keys) ELSE cats

(* ------------------------------------------------------------------ *)
(* ReconciliationEngine: cleanupMediaFiles                             *)
(* ------------------------------------------------------------------ *)

\* how a call leaves cleanupMediaFiles: its locals, the flag, the updates it issued

\* return of the counts, then the finally block
Completed(r) ==
    [r |-> [r EXCEPT !.pc = "idle",
                     !.result = [orphanedR2Files |-> Len(r.orphanedR2Keys),
                                 danglingSavedReferences |-> Cardinality(r.danglingDbKeys)],
                     !.outcome = "completed"],
     flag |-> FALSE, ops |-> {}]

\* faulty variant: the flag is reset on the success path only
Aborted_NoFinally(r) ==
    [r |-> [r EXCEPT !.pc = "idle", !.result = ZeroResult, !.outcome = "aborted"],
     flag |-> TRUE, ops |-> {}]

\* faulty variant: no catch block, the error reaches the caller
Aborted_Throws(r) ==
    [r |-> [r EXCEPT !.pc = "idle", !.result = ZeroResult, !.outcome = "threw"],
     flag |-> FALSE, ops |-> {}]

\* the catch block, then the finally block
Aborted(r) ==
    [r |-> [r EXCEPT !.pc = "idle", !.result = ZeroResult, !.outcome = "aborted"],
     flag |-> FALSE, ops |-> {}]

Awaiting(r) == [r |-> r, flag |-> TRUE, ops |-> {}]

\* an I/O call of the run failed (what the environment did, not how the run took it)
Failing(step, what) == [step EXCEPT !.r.failed = @ \cup {what}]

\* faulty variant: every listed key counts as orphaned
OrphanedR2Keys_Unfiltered(r2MediaKeys, dbMediaKeys) == r2MediaKeys

\* Array.from(r2MediaKeys).filter((key) => !dbMediaKeys.has(key))
OrphanedR2Keys(r2MediaKeys, dbMediaKeys) ==
    FilterSeq(r2MediaKeys, Range(r2MediaKeys) \ dbMediaKeys)

\* faulty variant: the referenced keys are compared with the bucket as it is
\* after the deletes, not with the listing
DanglingDbKeys_Live(dbMediaKeys, r2MediaKeys) ==
    {k \in dbMediaKeys : k \notin r2Objects}

\* Array.from(dbMediaKeys).filter((key) => !r2MediaKeys.has(key))
DanglingDbKeys(dbMediaKeys, r2MediaKeys) ==
    {k \in dbMediaKeys : k \notin Range(r2MediaKeys)}

\* faulty variant: the slice stops one key short
Batch_DropLast(orphanedKeys, i) ==
    SubSeq(orphanedKeys, i + 1, Min(i + batchSize, Len(orphanedKeys)) - 1)

\* faulty variant: one delete call for all that is left
Batch_Unbounded(orphanedKeys, i) == SubSeq(orphanedKeys, i + 1, Len(orphanedKeys))

\* orphanedKeys.slice(i, i + batchSize)
Batch(orphanedKeys, i) == SubSeq(orphanedKeys, i + 1, Min(i + batchSize, Len(orphanedKeys)))

\* steps 5 and 6: the dangling keys and the start of their cleanup
AfterDelete(r, connected) ==
    LET danglingDbKeys == DanglingDbKeys(r.dbMediaKeys, r.r2MediaKeys)
        r1 == [r EXCEPT !.danglingDbKeys = danglingDbKeys]
        groups == CleanupGroups(danglingDbKeys)
    IN IF danglingDbKeys = {} THEN Completed(r1)
       ELSE IF ~connected THEN Failing(Aborted(r1), "connect")
       ELSE IF groups = {} THEN Completed(r1)
       ELSE [r |-> [r1 EXCEPT !.pc = "awaitUpdates",
                              !.calls = @ \o SortGroups(groups)],
             flag |-> TRUE, ops |-> groups]

\* steps 3 and 4: the orphaned keys and the first delete batch
AfterListing(r, connected) ==
    LET orphanedR2Keys == OrphanedR2Keys(r.r2MediaKeys, r.dbMediaKeys)
        r1 == [r EXCEPT !.orphanedR2Keys = orphanedR2Keys, !.i = 0]
    IN IF Len(orphanedR2Keys) = 0 THEN AfterDelete(r1, connected)
       ELSE Awaiting([r1 EXCEPT !.pc = "awaitDelete",
                                !.calls = Append(@, Call("delete", <<>>, NoKey, Batch(orphanedR2Keys, 0)))])

\* the note on a call that somebody else changed the stores since it was accepted
Disturbed(r) ==
    IF r.outcome \in {"running", "completed", "aborted"} THEN [r EXCEPT !.quiet = FALSE] ELSE r

\* executeDbOperation rethrows the error of a failed query to cleanupMediaFiles
QueryFailed(r) == Aborted(r)

\* faulty variant: the catch block logs the error and returns the keys listed so far
ListFailed_Swallowed(r, connected) == AfterListing(r, connected)

\* the catch block of getMediaKeysFromR2 logs the error and rethrows it
ListFailed(r, connected) == Aborted(r)

\* faulty variant: a failed batch is logged and the loop goes on
DeleteFailed_Skipped(r, connected) ==
    LET r1 == [r EXCEPT !.i = @ + batchSize]
    IN IF r1.i < Len(r.orphanedR2Keys)
       THEN Awaiting([r1 EXCEPT !.calls = Append(@, Call("delete", <<>>, NoKey, Batch(r.orphanedR2Keys, r1.i)))])
       ELSE AfterDelete(r1, connected)

\* the catch block of deleteOrphanedR2Files logs the error and rethrows it
DeleteFailed(r, connected) == Aborted(r)

\* a step of call i takes effect: the stores, the flag, the issued updates, and
\* the note on every other call that somebody else changed the stores
Commit(i, step, prods, cats, bucket, pending, others) ==
    LET changed == <<prods, cats, bucket>> # <<products, categories, r2Objects>>
    IN /\ products' = prods
       /\ categories' = cats
       /\ r2Objects' = bucket
       /\ isCleanupRunning' = step.flag
       /\ inflight' = pending \cup {[inv |-> i, detached |-> FALSE, group |-> o.group, keys |-> o.keys] : o \in step.ops}
       /\ run' = [j \in Invocations |->
                    IF j = i THEN step.r
                    ELSE IF changed THEN Disturbed(others[j])
                    ELSE others[j]]

\* the history of the calls that ended is kept until the next call is accepted
Forget(runs) ==
    [j \in Invocations |-> IF runs[j].pc = "idle" THEN [IdleRun EXCEPT !.self = j] ELSE runs[j]]

\* updates of an aborted call stay in flight, owned by nobody
Detach(pending, i) ==
    {[o EXCEPT !.detached = TRUE] : o \in {x \in pending : x.inv = i}}
    \cup {x \in pending : x.inv # i}

\* faulty variant: the first list call is sent together with the database query
Accepted_Concurrent(i, src, connected) ==
    LET r == [IdleRun EXCEPT
                !.self = i,
                !.via = src,
                !.outcome = "running",
                !.startProducts = products,
                !.startCategories = categories,
                !.startBucket = r2Objects]
    IN IF ~connected THEN Failing(Aborted(r), "connect")
       ELSE Awaiting([r EXCEPT !.pc = "awaitProducts",
                               !.calls = <<Call("find", <<"Product">>, NoKey, <<>>),
                                           Call("list", ManagedPrefixes[1], NoKey, <<>>)>>])

\* entry of cleanupMediaFiles up to its first await
Accepted(i, src, connected) ==
    LET r == [IdleRun EXCEPT
                !.self = i,
                !.via = src,
                !.outcome = "running",
                !.after = \E j \in Invocations :
                             /\ run[j].pc = "idle"
                             /\ run[j].outcome = "completed"
                             /\ run[j].quiet,
                !.afterFailedUpdate = \E j \in Invocations :
                                         /\ run[j].pc = "idle"
                                         /\ run[j].outcome = "aborted"
                                         /\ "update" \in run[j].failed,
                !.startProducts = products,
                !.startCategories = categories,
                !.startBucket = r2Objects]
    IN IF ~connected THEN Failing(Aborted(r), "connect")
       ELSE Awaiting([r EXCEPT !.pc = "awaitProducts",
                               !.calls = <<Call("find", <<"Product">>, NoKey, <<>>)>>])

\* faulty variant: the guard on isCleanupRunning is missing
Rejected_Proceeds(i, src) == Accepted(i, src, TRUE)

\* faulty variant: the guard sits inside the try block, so the finally block
\* resets the flag of the run in progress
Rejected_Releases(i, src) ==
    [r |-> [IdleRun EXCEPT !.self = i, !.via = src, !.outcome = "rejected", !.result = ZeroResult],
     flag |-> FALSE, ops |-> {}]

\* the early return of cleanupMediaFiles while a run is in progress
Rejected(i, src) ==
    [r |-> [IdleRun EXCEPT !.self = i, !.via = src, !.outcome = "rejected", !.result = ZeroResult],
     flag |-> isCleanupRunning, ops |-> {}]

\* faulty variant: the manual path does not look at the flag of the cron path
Trigger_ManualUnguarded(i, src, connected) ==
    /\ run[i].pc = "idle"
    /\ src = Via[i]
    /\ Cardinality({o \in inflight : o.detached}) <= MaxLeftover
    /\ IF isCleanupRunning /\ src = "cron"
       THEN Commit(i, Rejected(i, src), products, categories, r2Objects, inflight, run)
       ELSE Commit(i, Accepted(i, src, connected), products, categories, r2Objects, inflight,
                   Forget(run))
    /\ UNCHANGED <<tempVars, upload>>

\* a cron tick or runMediaCleanupManually calls cleanupMediaFiles
Trigger(i, src, connected) ==
    /\ run[i].pc = "idle"
    /\ src = Via[i]
    /\ Cardinality({o \in inflight : o.detached}) <= MaxLeftover
    /\ IF isCleanupRunning
       THEN Commit(i, Rejected(i, src), products, categories, r2Objects, inflight, run)
       ELSE Commit(i, Accepted(i, src, connected), products, categories, r2Objects, inflight,
                   Forget(run))
    /\ UNCHANGED <<tempVars, upload>>

\* Product.find returns or fails
ProductsReturn(i, ok) ==
    /\ run[i].pc = "awaitProducts"
    /\ Commit(i,
              IF ok
              THEN Awaiting([run[i] EXCEPT
                       !.pc = "awaitCategories",
                       !.dbMediaKeys = ProductKeysFromDatabase(products),
                       !.calls = Append(@, Call("find", <<"Category">>, NoKey, <<>>))])
              ELSE Failing(QueryFailed(run[i]), "find"),
              products, categories, r2Objects, inflight, run)
    /\ UNCHANGED <<tempVars, upload>>

\* Category.find returns or fails; then the first list call of getMediaKeysFromR2
CategoriesReturn(i, ok) ==
    /\ run[i].pc = "awaitCategories"
    /\ Commit(i,
              IF ok
              THEN Awaiting([run[i] EXCEPT
                       !.pc = "awaitList",
                       !.dbMediaKeys = @ \cup CategoryKeysFromDatabase(categories),
                       !.prefixIdx = 1,
                       !.continuationToken = NoKey,
                       !.calls = Append(@, Call("list", ManagedPrefixes[1], NoKey, <<>>))])
              ELSE Failing(QueryFailed(run[i]), "find"),
              products, categories, r2Objects, inflight, run)
    /\ UNCHANGED <<tempVars, upload>>

\* faulty variant: the loop ends after the first page of every prefix
AfterPage_FirstPageOnly(r, response, connected) ==
    LET r1 == [r EXCEPT !.r2MediaKeys = SetAddAll(@, response.Contents),
                        !.continuationToken = NoKey]
    IN IF r.prefixIdx < Len(ManagedPrefixes)
       THEN Awaiting([r1 EXCEPT !.prefixIdx = @ + 1,
                                !.calls = Append(@, Call("list", ManagedPrefixes[r.prefixIdx + 1],
                                                        NoKey, <<>>))])
       ELSE AfterListing(r1, connected)

\* one iteration of the do-while of getR2KeysWithPrefix, and what follows the
\* last page of the last prefix
AfterPage(r, response, connected) ==
    LET r1 == [r EXCEPT !.r2MediaKeys = SetAddAll(@, response.Contents),
                        !.continuationToken = response.NextContinuationToken]
    IN IF Truthy(r1.continuationToken)
       THEN Awaiting([r1 EXCEPT !.calls = Append(@, Call("list", ManagedPrefixes[r.prefixIdx],
                                                        r1.continuationToken, <<>>))])
       ELSE IF r.prefixIdx < Len(ManagedPrefixes)
       THEN Awaiting([r1 EXCEPT !.prefixIdx = @ + 1,
                                !.calls = Append(@, Call("list", ManagedPrefixes[r.prefixIdx + 1],
                                                        NoKey, <<>>))])
       ELSE AfterListing(r1, connected)

\* a list call returns a page of n keys, or fails
ListReturn(i, ok, connected) ==
    /\ run[i].pc = "awaitList"
    /\ \E n \in PageSizes(r2Objects, ManagedPrefixes[run[i].prefixIdx], run[i].continuationToken) :
       Commit(i,
              IF ok
              THEN AfterPage(run[i],
                             ListResponse(r2Objects, ManagedPrefixes[run[i].prefixIdx],
                                          run[i].continuationToken, n),
                             connected)
              ELSE Failing(ListFailed(run[i], connected), "list"),
              products, categories, r2Objects, inflight, run)
    /\ UNCHANGED <<tempVars, upload>>

\* faulty variant: the loop advances by one key less than a batch holds
AfterBatch_Overlap(r, connected) ==
    LET r1 == [r EXCEPT !.i = @ + batchSize - 1]
    IN IF r1.i < Len(r.orphanedR2Keys)
       THEN Awaiting([r1 EXCEPT !.calls = Append(@, Call("delete", <<>>, NoKey, Batch(r.orphanedR2Keys, r1.i)))])
       ELSE AfterDelete(r1, connected)

\* the loop of deleteOrphanedR2Files after a delete call returned
AfterBatch(r, connected) ==
    LET r1 == [r EXCEPT !.i = @ + batchSize]
    IN IF r1.i < Len(r.orphanedR2Keys)
       THEN Awaiting([r1 EXCEPT !.calls = Append(@, Call("delete", <<>>, NoKey, Batch(r.orphanedR2Keys, r1.i)))])
       ELSE AfterDelete(r1, connected)

\* a DeleteObjects call returns or fails
DeleteReturn(i, ok, connected) ==
    /\ run[i].pc = "awaitDelete"
    /\ IF ok
       THEN Commit(i, AfterBatch(run[i], connected), products, categories,
                   r2Objects \ Range(Batch(run[i].orphanedR2Keys, run[i].i)), inflight, run)
       ELSE Commit(i, Failing(DeleteFailed(run[i], connected), "delete"),
                   products, categories, r2Objects, inflight, run)
    /\ UNCHANGED <<tempVars, upload>>

\* faulty variant: the call keeps waiting after its last update has settled
AfterUpdate_Hangs(r, ok, rest) ==
    IF ~ok THEN Failing(Aborted(r), "update") ELSE Awaiting(r)

\* what Promise.all makes of one settled update of call i
AfterUpdate(r, ok, rest) ==
    IF ~ok THEN Failing(Aborted(r), "update")
    ELSE IF \E o \in rest : o.inv = r.self /\ ~o.detached THEN Awaiting(r)
    ELSE Completed(r)

\* an updateMany call completes or fails
UpdateReturn(op, ok) ==
    /\ op \in inflight
    /\ LET rest == inflight \ {op}
           prods == IF ok THEN ProductsAfterUpdate(products, op) ELSE products
           cats == IF ok THEN CategoriesAfterUpdate(categories, op) ELSE categories
       IN IF op.detached
          THEN /\ products' = prods
               /\ categories' = cats
               /\ inflight' = rest
               /\ run' = [j \in Invocations |->
                            IF <<prods, cats>> # <<products, categories>>
                            THEN Disturbed(run[j]) ELSE run[j]]
               /\ UNCHANGED <<r2Objects, isCleanupRunning>>
          ELSE LET step == AfterUpdate(run[op.inv], ok, rest)
               IN Commit(op.inv, step, prods, cats, r2Objects,
                         IF step.r.pc = "idle" THEN Detach(rest, op.inv) ELSE rest, run)
    /\ UNCHANGED <<tempVars, upload>>

(* ------------------------------------------------------------------ *)
(* TempFileJanitor: cleanupOldTempFiles                                *)
(* ------------------------------------------------------------------ *)

\* 1 hour in milliseconds
TEMP_FILE_MAX_AGE == 60 * 60 * 1000

ZeroTemp == [filesDeleted |-> 0, totalSize |-> 0]

NoTempRun ==
    [outcome |-> "none", via |-> "none", result |-> ZeroTemp,
     startDir |-> [exists |-> FALSE, entries |-> <<>>],
     endDir |-> [exists |-> FALSE, entries |-> <<>>], at |-> 0,
     statFails |-> {}, unlinkFails |-> {}, mediaRunning |-> FALSE]

\* the names readdirSync returns, in directory order
RECURSIVE NamesOf(_)
NamesOf(entries) ==
    IF DOMAIN entries = {} THEN <<>>
    ELSE LET n == CHOOSE x \in DOMAIN entries : \A y \in DOMAIN entries : x <= y
         IN <<n>> \o NamesOf([m \in DOMAIN entries \ {n} |-> entries[m]])

\* faulty variant: an entry exactly one hour old counts as too old
ScanEntry_AtLeast(acc, file, t, statFails, unlinkFails) ==
    LET stats == acc.entries[file]
    IN IF file \in statFails THEN acc
       ELSE IF t - stats.mtimeMs >= TEMP_FILE_MAX_AGE
       THEN LET sized == [acc EXCEPT !.totalSize = @ + stats.size]
            IN IF stats.kind = "dir" THEN sized
               ELSE IF stats.kind = "file" /\ file \notin unlinkFails
               THEN [sized EXCEPT
                       !.entries = [m \in DOMAIN acc.entries \ {file} |-> acc.entries[m]],
                       !.filesDeleted = @ + 1]
               ELSE sized
       ELSE acc

\* one iteration of the for loop over files; acc = [entries, filesDeleted, totalSize]
ScanEntry(acc, file, t, statFails, unlinkFails) ==
    LET stats == acc.entries[file]
    IN IF file \in statFails THEN acc
       ELSE IF t - stats.mtimeMs > TEMP_FILE_MAX_AGE
       THEN LET sized == [acc EXCEPT !.totalSize = @ + stats.size]
            IN IF stats.kind = "dir" THEN sized
               ELSE IF stats.kind = "file"
               THEN IF file \in unlinkFails THEN sized
                    ELSE [sized EXCEPT
                            !.entries = [m \in DOMAIN acc.entries \ {file} |-> acc.entries[m]],
                            !.filesDeleted = @ + 1]
               ELSE sized
       ELSE acc

\* faulty variant: the try block encloses the loop, the first error ends the scan
RECURSIVE ScanFiles_StopAtError(_, _, _, _, _)
ScanFiles_StopAtError(acc, files, t, statFails, unlinkFails) ==
    IF files = <<>> THEN acc
    ELSE IF Head(files) \in statFails \cup unlinkFails THEN acc
    ELSE ScanFiles_StopAtError(ScanEntry(acc, Head(files), t, statFails, unlinkFails),
                               Tail(files), t, statFails, unlinkFails)

RECURSIVE ScanFiles(_, _, _, _, _)
ScanFiles(acc, files, t, statFails, unlinkFails) ==
    IF files = <<>> THEN acc
    ELSE ScanFiles(ScanEntry(acc, Head(files), t, statFails, unlinkFails),
                   Tail(files), t, statFails, unlinkFails)

\* the finally block of cleanupOldTempFiles
TempFinally(flag) == FALSE

\* the body of the try block: [dir, outcome, result]
TempTry(dir, t, fsFails, statFails, unlinkFails) ==
    IF ~dir.exists
    THEN IF fsFails THEN [dir |-> dir, outcome |-> "failed", result |-> ZeroTemp]
         ELSE [dir |-> [exists |-> TRUE, entries |-> <<>>], outcome |-> "created",
               result |-> ZeroTemp]
    ELSE IF fsFails THEN [dir |-> dir, outcome |-> "failed", result |-> ZeroTemp]
    ELSE LET files == NamesOf(dir.entries)
         IN IF Len(files) = 0
            THEN [dir |-> dir, outcome |-> "empty", result |-> ZeroTemp]
            ELSE LET acc == ScanFiles([entries |-> dir.entries, filesDeleted |-> 0, totalSize |-> 0],
                                      files, t, statFails, unlinkFails)
                 IN [dir |-> [exists |-> TRUE, entries |-> acc.entries],
                     outcome |-> "scanned",
                     result |-> [filesDeleted |-> acc.filesDeleted, totalSize |-> acc.totalSize]]

\* faulty variant: both jobs share one flag
TempTrigger_SharedFlag(src, fsFails, statFails, unlinkFails) ==
    /\ IF isTempCleanupRunning \/ isCleanupRunning
       THEN /\ tempRun' = [NoTempRun EXCEPT !.outcome = "rejected", !.via = src,
                                              !.mediaRunning = isCleanupRunning]
            /\ UNCHANGED <<tempDir, isTempCleanupRunning>>
       ELSE LET t == TempTry(tempDir, now, fsFails, statFails, unlinkFails)
            IN /\ tempDir' = t.dir
               /\ isTempCleanupRunning' = TempFinally(TRUE)
               /\ tempRun' = [outcome |-> t.outcome, via |-> src, result |-> t.result,
                              startDir |-> tempDir, endDir |-> t.dir, at |-> now,
                              statFails |-> IF t.outcome = "scanned" THEN statFails ELSE {},
                              unlinkFails |-> IF t.outcome = "scanned" THEN unlinkFails ELSE {},
                              mediaRunning |-> isCleanupRunning]
    /\ UNCHANGED <<now, mediaVars, upload>>

\* the hourly cron tick or runTempFileCleanupManually calls cleanupOldTempFiles;
\* the function has no await, so the whole call is one step; mediaRunning
\* notes whether a media cleanup was in progress at the time
TempTrigger(src, fsFails, statFails, unlinkFails) ==
    /\ IF isTempCleanupRunning
       THEN /\ tempRun' = [NoTempRun EXCEPT !.outcome = "rejected", !.via = src,
                                              !.mediaRunning = isCleanupRunning]
            /\ UNCHANGED <<tempDir, isTempCleanupRunning>>
       ELSE LET t == TempTry(tempDir, now, fsFails, statFails, unlinkFails)
            IN /\ tempDir' = t.dir
               /\ isTempCleanupRunning' = TempFinally(TRUE)
               /\ tempRun' = [outcome |-> t.outcome, via |-> src, result |-> t.result,
                              startDir |-> tempDir, endDir |-> t.dir, at |-> now,
                              statFails |-> IF t.outcome = "scanned" THEN statFails ELSE {},
                              unlinkFails |-> IF t.outcome = "scanned" THEN unlinkFails ELSE {},
                              mediaRunning |-> isCleanupRunning]
    /\ UNCHANGED <<now, mediaVars, upload>>

(* ------------------------------------------------------------------ *)
(* Media controller: uploadProductThumbnail, uploadProductMedia        *)
(* ------------------------------------------------------------------ *)

\* no upload request so far
NoUpload ==
    [pc |-> "idle", kind |-> "none", id |-> "none", key |-> NoKey, old |-> NoKey,
     outcome |-> "none"]

\* PRODUCT_THUMBNAIL_KEY_PREFIX(id, fileName), PRODUCT_IMAGE_KEY_PREFIX(id, fileName)
\* with a generated file name, which no earlier key has
UploadKey(kind) ==
    IF kind = "thumbnail" THEN Key(PRODUCT_THUMBNAIL_PREFIX, 3) ELSE Key(PRODUCT_IMAGE_PREFIX, 3)

\* a step of the upload request takes effect; the calls of cleanupMediaFiles
\* note that somebody else changed the stores
UploadCommit(u, prods, bucket) ==
    /\ upload' = u
    /\ products' = prods
    /\ r2Objects' = bucket
    /\ run' = [j \in Invocations |->
                 IF <<prods, bucket>> # <<products, r2Objects>> THEN Disturbed(run[j]) ELSE run[j]]
    /\ UNCHANGED <<categories, isCleanupRunning, inflight, tempVars>>

\* faulty variant: the request writes the new key into the document first and
\* stores the blob afterwards
UploadStart_ReferenceFirst(kind, id) ==
    /\ upload.pc = "idle"
    /\ upload.outcome = "none"
    /\ UploadCommit([NoUpload EXCEPT !.pc = "awaitProduct", !.kind = kind, !.id = id,
                                     !.key = UploadKey(kind)],
                    [products EXCEPT ![id] =
                        IF kind = "thumbnail"
                        THEN [@ EXCEPT !.thumbnail = UploadKey(kind)]
                        ELSE [@ EXCEPT !.images = Append(@, UploadKey(kind))]],
                    r2Objects)

\* the request handler up to ProductService.getProductById
UploadStart(kind, id) ==
    /\ upload.pc = "idle"
    /\ upload.outcome = "none"
    /\ UploadCommit([NoUpload EXCEPT !.pc = "awaitProduct", !.kind = kind, !.id = id,
                                     !.key = UploadKey(kind)],
                    products, r2Objects)

\* getProductById returns; the previous thumbnail is deleted first if there is one
UploadProductReturn(ok) ==
    /\ upload.pc = "awaitProduct"
    /\ LET thumbnail == products[upload.id].thumbnail
       IN UploadCommit(
             IF ~ok THEN [upload EXCEPT !.pc = "idle", !.outcome = "failed"]
             ELSE IF /\ upload.kind = "thumbnail"
                     /\ Truthy(thumbnail)
                     /\ StartsWith(thumbnail, PRODUCT_THUMBNAIL_PREFIX)
             THEN [upload EXCEPT !.pc = "awaitDeleteOld", !.old = thumbnail]
             ELSE [upload EXCEPT !.pc = "awaitPut"],
             products, r2Objects)

\* MediaService.deleteFile(product.thumbnail) returns or fails; the upload goes on
UploadDeleteOldReturn(ok) ==
    /\ upload.pc = "awaitDeleteOld"
    /\ UploadCommit([upload EXCEPT !.pc = "awaitPut"], products,
                    IF ok THEN r2Objects \ {upload.old} ELSE r2Objects)

\* MediaService.uploadFile stores the blob under the new key, or fails
UploadPutReturn(ok) ==
    /\ upload.pc = "awaitPut"
    /\ IF ok
       THEN UploadCommit([upload EXCEPT !.pc = "awaitUpdate"], products,
                         r2Objects \cup {upload.key})
       ELSE UploadCommit([upload EXCEPT !.pc = "idle", !.outcome = "failed"], products, r2Objects)

\* ProductService.updateProduct writes the new key into the document, or fails
UploadUpdateReturn(ok) ==
    /\ upload.pc = "awaitUpdate"
    /\ IF ok
       THEN UploadCommit([upload EXCEPT !.pc = "idle", !.outcome = "stored"],
                         [products EXCEPT ![upload.id] =
                             IF upload.kind = "thumbnail"
                             THEN [@ EXCEPT !.thumbnail = upload.key]
                             ELSE [@ EXCEPT !.images = Append(@, upload.key)]],
                         r2Objects)
       ELSE UploadCommit([upload EXCEPT !.pc = "idle", !.outcome = "failed"], products, r2Objects)

(* ------------------------------------------------------------------ *)
(* Specification                                                       *)
(* ------------------------------------------------------------------ *)

ThumbnailValues == {NoKey} \cup ThumbKeys \cup {Key(PRODUCT_IMAGE_PREFIX, 1)} \cup ExternalRefs

GalleryValues ==
    LET vals == {Key(PRODUCT_IMAGE_PREFIX, 1)} \cup ExternalRefs
    IN {<<>>} \cup {<<Key(PRODUCT_IMAGE_PREFIX, 1)>>}
       \cup {<<a, b>> : <<a, b>> \in {x \in vals \X vals : x[1] # x[2]}}

CategoryThumbnailValues == {NoKey} \cup CatKeys

NoStagedFiles == [exists |-> FALSE, entries |-> <<>>]

MediaActions ==
    \/ \E i \in Invocations, src \in {"cron", "manual"}, connected \in BOOLEAN :
          Trigger(i, src, connected)
    \/ \E i \in Invocations, ok \in BOOLEAN : ProductsReturn(i, ok)
    \/ \E i \in Invocations, ok \in BOOLEAN : CategoriesReturn(i, ok)
    \/ \E i \in Invocations, ok \in BOOLEAN, connected \in BOOLEAN :
          ListReturn(i, ok, connected)
    \/ \E i \in Invocations, ok \in BOOLEAN, connected \in BOOLEAN :
          DeleteReturn(i, ok, connected)
    \/ \E op \in inflight, ok \in BOOLEAN : UpdateReturn(op, ok)

\* --- media reconciliation over every small state of documents and bucket ---

Init ==
    /\ products \in [ProductIds -> [thumbnail : ThumbnailValues, images : GalleryValues]]
    /\ categories \in [CategoryIds -> [thumbnail : CategoryThumbnailValues]]
    /\ r2Objects \in {PageKeys \cup S : S \in SUBSET (BucketKeys \ PageKeys)}
    /\ isCleanupRunning = FALSE
    /\ isTempCleanupRunning = FALSE
    /\ run = [i \in Invocations |-> [IdleRun EXCEPT !.self = i]]
    /\ inflight = {}
    /\ tempDir = NoStagedFiles
    /\ now = 0
    /\ tempRun = NoTempRun
    /\ upload = NoUpload

Next == MediaActions

Spec == Init /\ [][Next]_vars

\* --- temp-file cleanup over every small staging directory ---

TempNames == {1, 2}

\* run start time of the first scan: a file modified at time 0 is just too old
Epoch == TEMP_FILE_MAX_AGE + 1

TempEntries ==
    [kind : {"file", "dir"}, mtimeMs : {0, 1, 2}, size : {10}]
    \cup [kind : {"file", "other"}, mtimeMs : {0}, size : {20}]

TempDirs ==
    {NoStagedFiles}
    \cup {[exists |-> TRUE, entries |-> e] :
            e \in UNION {[names -> TempEntries] : names \in SUBSET TempNames}}

\* time passes
Tick ==
    /\ now < Epoch + MaxTicks
    /\ now' = now + 1
    /\ UNCHANGED <<isTempCleanupRunning, tempDir, tempRun, mediaVars, upload>>

\* multer's diskStorage writes an uploaded file into the staging directory
StageFile(name) ==
    /\ tempDir.exists
    /\ name \notin DOMAIN tempDir.entries
    /\ tempDir' = [tempDir EXCEPT !.entries =
                      [m \in DOMAIN @ \cup {name} |->
                          IF m = name THEN [kind |-> "file", mtimeMs |-> now, size |-> 10]
                          ELSE @[m]]]
    /\ UNCHANGED <<isTempCleanupRunning, now, tempRun, mediaVars, upload>>

TempActions ==
    \E src \in {"cron", "manual"}, fsFails \in BOOLEAN,
       statFails \in SUBSET DOMAIN tempDir.entries :
          \E unlinkFails \in SUBSET (DOMAIN tempDir.entries \ statFails) :
             TempTrigger(src, fsFails, statFails, unlinkFails)

InitTemp ==
    /\ products = [id \in ProductIds |-> [thumbnail |-> NoKey, images |-> <<>>]]
    /\ categories = [id \in CategoryIds |-> [thumbnail |-> NoKey]]
    /\ r2Objects = {}
    /\ isCleanupRunning = FALSE
    /\ isTempCleanupRunning = FALSE
    /\ run = [i \in Invocations |-> [IdleRun EXCEPT !.self = i]]
    /\ inflight = {}
    /\ tempDir \in TempDirs
    /\ now = Epoch
    /\ tempRun = NoTempRun
    /\ upload = NoUpload

NextTemp ==
    \/ TempActions
    \/ Tick
    \/ \E name \in TempNames : StageFile(name)

SpecTemp == InitTemp /\ [][NextTemp]_vars

\* --- both jobs side by side ---

InitJobs ==
    /\ products = [id \in ProductIds |->
                     [thumbnail |-> Key(PRODUCT_THUMBNAIL_PREFIX, 1),
                      images |-> <<Key(PRODUCT_IMAGE_PREFIX, 1)>>]]
    /\ categories = [id \in CategoryIds |-> [thumbnail |-> NoKey]]
    /\ r2Objects \in {PageKeys \cup {Key(PRODUCT_IMAGE_PREFIX, 1)} \cup S :
                        S \in SUBSET ({Key(PRODUCT_IMAGE_PREFIX, 2)} \cup ThumbKeys)}
    /\ isCleanupRunning = FALSE
    /\ isTempCleanupRunning = FALSE
    /\ run = [i \in Invocations |-> [IdleRun EXCEPT !.self = i]]
    /\ inflight = {}
    /\ tempDir \in {NoStagedFiles,
                    [exists |-> TRUE,
                     entries |-> [n \in {1} |-> [kind |-> "file", mtimeMs |-> 0, size |-> 10]]]}
    /\ now = Epoch
    /\ tempRun = NoTempRun
    /\ upload = NoUpload

NextJobs ==
    \/ MediaActions
    \/ TempActions

SpecJobs == InitJobs /\ [][NextJobs]_vars

\* --- both jobs, when every call of a run to the database and to storage
\* eventually returns, with a result or with an error ---

EveryCallReturns ==
    /\ WF_vars(\E i \in Invocations, ok \in BOOLEAN : ProductsReturn(i, ok))
    /\ WF_vars(\E i \in Invocations, ok \in BOOLEAN : CategoriesReturn(i, ok))
    /\ WF_vars(\E i \in Invocations, ok \in BOOLEAN, connected \in BOOLEAN :
                  ListReturn(i, ok, connected))
    /\ WF_vars(\E i \in Invocations, ok \in BOOLEAN, connected \in BOOLEAN :
                  DeleteReturn(i, ok, connected))
    /\ WF_vars(\E op \in inflight, ok \in BOOLEAN : UpdateReturn(op, ok))

\* a product whose thumbnail object is missing, a gallery image in storage,
\* an unreferenced image, and an empty staging directory
InitLive ==
    /\ products = [id \in ProductIds |->
                     [thumbnail |-> Key(PRODUCT_THUMBNAIL_PREFIX, 1),
                      images |-> <<Key(PRODUCT_IMAGE_PREFIX, 1)>>]]
    /\ categories = [id \in CategoryIds |-> [thumbnail |-> NoKey]]
    /\ r2Objects = PageKeys \cup ImageKeys
    /\ isCleanupRunning = FALSE
    /\ isTempCleanupRunning = FALSE
    /\ run = [i \in Invocations |-> [IdleRun EXCEPT !.self = i]]
    /\ inflight = {}
    /\ tempDir = [exists |-> TRUE, entries |-> <<>>]
    /\ now = Epoch
    /\ tempRun = NoTempRun
    /\ upload = NoUpload

NextLive ==
    \/ MediaActions
    \/ TempActions

SpecLive == InitLive /\ [][NextLive]_vars /\ EveryCallReturns

\* --- a run that found a long list of orphaned objects ---

OrphanCounts ==
    {n \in 0..MaxOrphans : n % 50 = 0 \/ n % batchSize \in {1, batchSize - 1} \/ n = MaxOrphans}

\* the calls of a run up to its last list call, when the bucket held only
\* n unreferenced product images and every page was full
CallsBeforeLastList(n) ==
    <<Call("find", <<"Product">>, NoKey, <<>>), Call("find", <<"Category">>, NoKey, <<>>)>>
    \o [j \in 1..(IF n = 0 THEN 1 ELSE (n + MaxKeys - 1) \div MaxKeys) |->
          Call("list", PRODUCT_IMAGE_PREFIX,
               IF j = 1 THEN NoKey ELSE Key(PRODUCT_IMAGE_PREFIX, (j - 1) * MaxKeys), <<>>)]
    \o <<Call("list", PRODUCT_THUMBNAIL_PREFIX, NoKey, <<>>),
         Call("list", CATEGORY_THUMBNAIL_PREFIX, NoKey, <<>>)>>

InitBatch ==
    /\ products = [id \in ProductIds |-> [thumbnail |-> NoKey, images |-> <<>>]]
    /\ categories = [id \in CategoryIds |-> [thumbnail |-> NoKey]]
    /\ \E n \in OrphanCounts :
          LET listed == [k \in 1..n |-> Key(PRODUCT_IMAGE_PREFIX, k)]
          IN /\ r2Objects = Range(listed)
             /\ run = [i \in Invocations |->
                          IF i = 1
                          THEN [IdleRun EXCEPT
                                  !.self = 1, !.via = Via[1], !.outcome = "running",
                                  !.pc = "awaitList", !.prefixIdx = Len(ManagedPrefixes),
                                  !.r2MediaKeys = listed,
                                  !.calls = CallsBeforeLastList(n),
                                  !.startProducts = products,
                                  !.startCategories = categories,
                                  !.startBucket = Range(listed)]
                          ELSE [IdleRun EXCEPT !.self = i]]
    /\ isCleanupRunning = TRUE
    /\ isTempCleanupRunning = FALSE
    /\ inflight = {}
    /\ tempDir = NoStagedFiles
    /\ now = 0
    /\ tempRun = NoTempRun
    /\ upload = NoUpload

NextBatch ==
    \/ \E ok \in BOOLEAN, connected \in BOOLEAN : ListReturn(1, ok, connected)
    \/ \E ok \in BOOLEAN, connected \in BOOLEAN : DeleteReturn(1, ok, connected)

SpecBatch == InitBatch /\ [][NextBatch]_vars

\* --- a media cleanup next to an upload request ---

UploadActions ==
    \/ \E kind \in {"thumbnail", "image"}, id \in ProductIds : UploadStart(kind, id)
    \/ \E ok \in BOOLEAN : UploadProductReturn(ok)
    \/ \E ok \in BOOLEAN : UploadDeleteOldReturn(ok)
    \/ \E ok \in BOOLEAN : UploadPutReturn(ok)
    \/ \E ok \in BOOLEAN : UploadUpdateReturn(ok)

InitUpload ==
    /\ \E t \in {NoKey} \cup ThumbKeys, g \in {<<>>, <<Key(PRODUCT_IMAGE_PREFIX, 1)>>},
          S \in SUBSET {Key(PRODUCT_IMAGE_PREFIX, 2)} :
          /\ products = [id \in ProductIds |-> [thumbnail |-> t, images |-> g]]
          /\ r2Objects = PageKeys \cup ({t} \ {NoKey}) \cup Range(g) \cup S
    /\ categories = [id \in CategoryIds |-> [thumbnail |-> NoKey]]
    /\ isCleanupRunning = FALSE
    /\ isTempCleanupRunning = FALSE
    /\ run = [i \in Invocations |-> [IdleRun EXCEPT !.self = i]]
    /\ inflight = {}
    /\ tempDir = NoStagedFiles
    /\ now = 0
    /\ tempRun = NoTempRun
    /\ upload = NoUpload

NextUpload ==
    \/ MediaActions
    \/ UploadActions

SpecUpload == InitUpload /\ [][NextUpload]_vars

(* ------------------------------------------------------------------ *)
(* Properties                                                          *)
(* ------------------------------------------------------------------ *)

\* the three managed prefixes, as the specification names them
SpecPrefixes == {<<"img", "product">>, <<"img", "product", "thumbnail">>,
                 <<"img", "category", "thumbnail">>}

UnderManagedPrefix(k) == \E p \in SpecPrefixes : StartsWith(k, p)

\* every value of Product.images, Product.thumbnail and Category.thumbnail
ReferenceValues(prods, cats) ==
    UNION {{prods[id].thumbnail} \cup Range(prods[id].images) : id \in DOMAIN prods}
    \cup {cats[id].thumbnail : id \in DOMAIN cats}

\* call i was accepted, ran to its end without a failure, and nobody else has
\* changed documents or storage since it was accepted
CleanRun(i) ==
    /\ run[i].pc = "idle"
    /\ run[i].outcome = "completed"
    /\ run[i].failed = {}
    /\ run[i].quiet

CallsOf(i, ops) == {n \in 1..Len(run[i].calls) : run[i].calls[n].op \in ops}

UpdateOps == {"pullProductImages", "nullProductThumbnail", "nullCategoryThumbnail"}

DeletedBy(i) == UNION {Range(run[i].calls[n].keys) : n \in CallsOf(i, {"delete"})}

\* C1 (coverage): after a run that completed without error and without concurrent
\* mutation, every object under a managed prefix is referenced by a document
\* field, and every object that was unreferenced at run start has been deleted.
C1_Coverage ==
    \A i \in Invocations : CleanRun(i) =>
        /\ \A k \in r2Objects :
              UnderManagedPrefix(k) => k \in ReferenceValues(products, categories)
        /\ \A k \in run[i].startBucket :
              (/\ UnderManagedPrefix(k)
               /\ k \notin ReferenceValues(run[i].startProducts, run[i].startCategories))
              => k \notin r2Objects

C1_Witness ==
    \E i \in Invocations :
        /\ CleanRun(i)
        /\ run[i].result.orphanedR2Files = 2
        /\ \E k \in r2Objects : UnderManagedPrefix(k)

\* C2 (reference invariant): after a run that completed without error and without
\* concurrent mutation, every managed-prefix value in Product.images,
\* Product.thumbnail or Category.thumbnail names an object in storage, and every
\* value that was dangling at run start is gone from the documents.
C2_ReferenceInvariant ==
    \A i \in Invocations : CleanRun(i) =>
        /\ \A v \in ReferenceValues(products, categories) :
              UnderManagedPrefix(v) => v \in r2Objects
        /\ \A v \in ReferenceValues(run[i].startProducts, run[i].startCategories) :
              (UnderManagedPrefix(v) /\ v \notin run[i].startBucket)
              => v \notin ReferenceValues(products, categories)

\* C3 (idempotence): a clean run accepted right after a clean run, with no
\* mutation in between, returns {0, 0} and leaves documents and storage as they were.
C3_Idempotence ==
    \A i \in Invocations : (CleanRun(i) /\ run[i].after) =>
        /\ run[i].result = ZeroResult
        /\ products = run[i].startProducts
        /\ categories = run[i].startCategories
        /\ r2Objects = run[i].startBucket

\* C4 (exclusivity): a call of cleanupMediaFiles made while isCleanupRunning is
\* true returns {0, 0} in the same step, has issued no I/O call, and changes
\* neither the flag, the stores nor the updates in flight.
C4_Exclusivity ==
    [][\A i \in Invocations :
          (/\ isCleanupRunning
           /\ run[i].pc = "idle"
           /\ run'[i] # run[i]
           /\ run'[i] # Disturbed(run[i]))
          => /\ run'[i].pc = "idle"
             /\ run'[i].outcome = "rejected"
             /\ run'[i].result = ZeroResult
             /\ run'[i].calls = <<>>
             /\ UNCHANGED <<products, categories, r2Objects, inflight, isCleanupRunning>>]_vars

C4_Witness ==
    \E i, j \in Invocations :
        /\ run[i].outcome = "rejected"
        /\ run[j].pc = "awaitDelete"
        /\ isCleanupRunning

\* C5 (fail-closed): a run in which the database query or a list call failed has
\* issued no delete call and no document update, has computed no orphaned or
\* dangling key from what it had listed, and returns {0, 0}.
C5_FailClosed ==
    \A i \in Invocations :
        (run[i].failed \cap {"find", "list"} # {}) =>
            /\ CallsOf(i, {"delete"} \cup UpdateOps) = {}
            /\ run[i].orphanedR2Keys = <<>>
            /\ run[i].danglingDbKeys = {}
            /\ run[i].pc = "idle"
            /\ run[i].result = ZeroResult
            /\ run[i].quiet => /\ products = run[i].startProducts
                               /\ categories = run[i].startCategories
                               /\ r2Objects = run[i].startBucket

\* the listing of the second prefix failed after the first prefix had been
\* listed in two pages and had returned objects that no document references
C5_Witness ==
    \E i \in Invocations :
        /\ "list" \in run[i].failed
        /\ run[i].prefixIdx = 2
        /\ Cardinality(CallsOf(i, {"list"})) >= 3
        /\ Range(run[i].r2MediaKeys) \ run[i].dbMediaKeys # {}
        /\ run[i].outcome = "aborted"

\* C6 (prefix confinement): every list call uses one of the three managed
\* prefixes, every key of a delete call and of a document update filter starts
\* with a managed prefix, and the page media under data/ stay in the bucket.
C6_PrefixConfinement ==
    /\ \A i \in Invocations : \A n \in 1..Len(run[i].calls) :
          LET c == run[i].calls[n]
          IN /\ c.op = "list" => c.prefix \in SpecPrefixes
             /\ c.op \in {"delete"} \cup UpdateOps =>
                   \A k \in Range(c.keys) : UnderManagedPrefix(k)
    /\ \A o \in inflight : \A k \in o.keys : UnderManagedPrefix(k)
    /\ Key(PAGE_MEDIA_PREFIX, 1) \in r2Objects

C6_Witness ==
    \E i \in Invocations :
        /\ CallsOf(i, {"delete"}) # {}
        /\ CallsOf(i, UpdateOps) # {}
        /\ Cardinality(CallsOf(i, {"list"})) > 3
        /\ run[i].outcome = "completed"

\* C7 (flag release): isCleanupRunning is true exactly while some accepted call
\* is between its acceptance and its end, whatever ended it, so a trigger after
\* the end is accepted; isTempCleanupRunning is false after every temp cleanup.
C7_FlagRelease ==
    /\ isCleanupRunning = (\E i \in Invocations : run[i].pc # "idle")
    /\ isTempCleanupRunning = FALSE

C7_Witness ==
    /\ \E i \in Invocations :
          /\ run[i].pc = "idle"
          /\ run[i].outcome = "aborted"
          /\ "update" \in run[i].failed
    /\ tempRun.outcome = "empty"
    /\ ~isCleanupRunning
    /\ ~isTempCleanupRunning

\* C8 (batch-size bound): no delete call carries more than 1000 keys.
C8_BatchSizeBound ==
    \A i \in Invocations : \A n \in CallsOf(i, {"delete"}) :
        Len(run[i].calls[n].keys) <= 1000

C8_Witness ==
    \E i \in Invocations :
        /\ Len(run[i].orphanedR2Keys) = 2500
        /\ Cardinality(CallsOf(i, {"delete"})) = 3
        /\ \E n \in CallsOf(i, {"delete"}) : Len(run[i].calls[n].keys) = 1000

\* C9 (result counts): a run without failure returns the number of keys listed
\* and not referenced, and the number of keys referenced and not listed; its
\* delete calls carry exactly the former keys and none of the referenced ones.
C9_ResultCounts ==
    \A i \in Invocations :
        (run[i].pc = "idle" /\ run[i].outcome = "completed" /\ run[i].failed = {}) =>
            LET stored == Range(run[i].r2MediaKeys)
                referenced == run[i].dbMediaKeys
            IN /\ run[i].result.orphanedR2Files = Cardinality(stored \ referenced)
               /\ run[i].result.danglingSavedReferences = Cardinality(referenced \ stored)
               /\ DeletedBy(i) = stored \ referenced
               /\ DeletedBy(i) \cap referenced = {}
               /\ run[i].quiet => r2Objects = run[i].startBucket \ (stored \ referenced)

\* Scenario A: a referenced thumbnail stays, an unreferenced key is deleted
C9_Witness ==
    \E i \in Invocations :
        /\ CleanRun(i)
        /\ run[i].result = [orphanedR2Files |-> 1, danglingSavedReferences |-> 0]
        /\ products["p1"].thumbnail = Key(PRODUCT_THUMBNAIL_PREFIX, 1)
        /\ Key(PRODUCT_THUMBNAIL_PREFIX, 1) \in r2Objects
        /\ Key(PRODUCT_IMAGE_PREFIX, 2) \in run[i].startBucket \ r2Objects

\* age of a staged entry at the start of the last scan
AgeAtScan(n) == tempRun.at - tempRun.startDir.entries[n].mtimeMs

Retained(n) ==
    /\ n \in DOMAIN tempRun.endDir.entries
    /\ tempRun.endDir.entries[n] = tempRun.startDir.entries[n]

\* C10 as stated (temp retention): in every temp cleanup run a regular file older
\* than one hour is deleted, an entry not older than one hour is retained, and a
\* directory is never deleted.
C10_TempRetention_Original ==
    (tempRun.outcome \in {"scanned", "failed"}) =>
        \A n \in DOMAIN tempRun.startDir.entries :
            LET e == tempRun.startDir.entries[n]
            IN /\ (e.kind = "file" /\ AgeAtScan(n) > 3600000) =>
                      n \notin DOMAIN tempRun.endDir.entries
               /\ AgeAtScan(n) <= 3600000 => Retained(n)
               /\ e.kind = "dir" => Retained(n)

\* C10 as amended: in a run whose directory listing succeeded, a regular file
\* older than one hour whose stat and unlink succeed is deleted; in every run an
\* entry not older than one hour is retained and a directory is never deleted.
C10_TempRetention ==
    (tempRun.outcome \in {"scanned", "failed"}) =>
        \A n \in DOMAIN tempRun.startDir.entries :
            LET e == tempRun.startDir.entries[n]
            IN /\ (/\ tempRun.outcome = "scanned"
                   /\ n \notin tempRun.statFails \cup tempRun.unlinkFails
                   /\ e.kind = "file"
                   /\ AgeAtScan(n) > 3600000) =>
                      n \notin DOMAIN tempRun.endDir.entries
               /\ AgeAtScan(n) <= 3600000 => Retained(n)
               /\ e.kind = "dir" => Retained(n)

C10_Witness ==
    /\ tempRun.outcome = "scanned"
    /\ \E n, m \in DOMAIN tempRun.startDir.entries :
          /\ tempRun.startDir.entries[n].kind = "file"
          /\ AgeAtScan(n) = 3600001
          /\ n \notin DOMAIN tempRun.endDir.entries
          /\ tempRun.startDir.entries[m].kind = "file"
          /\ AgeAtScan(m) = 3600000
          /\ Retained(m)

\* a filesystem call failed in the last temp cleanup
TempFailure == tempRun.outcome = "failed" \/ tempRun.statFails \cup tempRun.unlinkFails # {}

\* C11 as stated (no error surfaces): a call in which a database, storage or
\* filesystem call failed has ended, did not throw, and returned zero counts.
C11_NoErrorSurfaces_Original ==
    /\ \A i \in Invocations : run[i].failed # {} =>
          /\ run[i].pc = "idle"
          /\ run[i].outcome = "aborted"
          /\ run[i].result = ZeroResult
    /\ TempFailure => tempRun.result = ZeroTemp

\* C11 as amended: a media call in which any I/O call failed has ended, did not
\* throw, and returned {0, 0}; a temp cleanup whose directory calls failed
\* returned {0, 0}; a temp cleanup in which only stat or unlink of single
\* entries failed did not throw either and returned the counts of its scan.
C11_NoErrorSurfaces ==
    /\ \A i \in Invocations : run[i].failed # {} =>
          /\ run[i].pc = "idle"
          /\ run[i].outcome = "aborted"
          /\ run[i].result = ZeroResult
    /\ tempRun.outcome = "failed" => tempRun.result = ZeroTemp
    /\ TempFailure => tempRun.outcome \in {"failed", "scanned"}
    /\ tempRun.outcome \notin {"threw", "none"} => ~isTempCleanupRunning

C11_Witness ==
    /\ \E i \in Invocations : "delete" \in run[i].failed
    /\ tempRun.outcome = "failed"
    /\ tempRun.via = "cron"

\* the step is a call of cleanupMediaFiles by caller i
Calls(i) ==
    /\ run[i].pc = "idle"
    /\ run'[i].via # "none"
    /\ run'[i] # run[i]
    /\ run'[i] # Disturbed(run[i])

\* C12 (manual and scheduled triggers are the same operation): a call of
\* cleanupMediaFiles, from the cron callback or from the manual trigger, is
\* rejected with {0, 0} exactly when some call of either origin is running, and
\* accepted otherwise; a call of cleanupOldTempFiles from either origin is
\* rejected with zero counts exactly when isTempCleanupRunning is set.
C12_SameOperation ==
    [][/\ \A i \in Invocations : Calls(i) =>
             /\ run'[i].via = Via[i]
             /\ IF \E j \in Invocations : run[j].pc # "idle"
                THEN /\ run'[i].outcome = "rejected"
                     /\ run'[i].result = ZeroResult
                     /\ run'[i].calls = <<>>
                     /\ isCleanupRunning'
                ELSE run'[i].outcome \in {"running", "aborted"}
       /\ tempRun' # tempRun =>
             /\ tempRun'.via \in {"cron", "manual"}
             /\ IF isTempCleanupRunning
                THEN tempRun'.outcome = "rejected" /\ tempRun'.result = ZeroTemp
                ELSE tempRun'.outcome \in {"failed", "created", "empty", "scanned"}]_vars

\* a cron tick was rejected during a run the manual trigger started, and the
\* manual trigger ran the temp cleanup
C12_Witness ==
    \E i, j \in Invocations :
        /\ run[i].via = "cron"
        /\ run[i].outcome = "rejected"
        /\ run[j].via = "manual"
        /\ run[j].pc # "idle"
        /\ tempRun.via = "manual"
        /\ tempRun.outcome = "scanned"

\* C13 (job independence): a call of cleanupOldTempFiles is rejected only when
\* isTempCleanupRunning is set, also while a media cleanup is in progress, and
\* leaves isCleanupRunning and the media calls alone; a call of cleanupMediaFiles
\* is rejected only when isCleanupRunning is set and leaves the temp job alone.
C13_JobIndependence ==
    [][/\ tempRun' # tempRun =>
             /\ (tempRun'.outcome = "rejected") = isTempCleanupRunning
             /\ tempRun'.mediaRunning => tempRun'.outcome \in {"failed", "created", "empty", "scanned"}
             /\ UNCHANGED <<isCleanupRunning, run, inflight>>
       /\ \A i \in Invocations : Calls(i) =>
             /\ (run'[i].outcome = "rejected") = isCleanupRunning
             /\ UNCHANGED <<isTempCleanupRunning, tempRun, tempDir>>
       /\ isCleanupRunning' # isCleanupRunning => UNCHANGED tempVars]_vars

\* a temp cleanup called during a media cleanup scanned the directory and
\* deleted a file, and the media cleanup is still in progress
C13_Witness ==
    /\ tempRun.mediaRunning
    /\ tempRun.outcome = "scanned"
    /\ tempRun.result.filesDeleted = 1
    /\ isCleanupRunning
    /\ \E i \in Invocations : run[i].pc = "awaitDelete"

\* C14 (safe interleaving with upload flows): the object an upload request has
\* stored is not deleted by a media cleanup while the request is in progress or
\* after it has written the reference; once both have finished, the reference
\* the request wrote names an object in storage.
C14_SafeInterleaving ==
    /\ (upload.pc = "awaitUpdate" \/ upload.outcome = "stored") => upload.key \in r2Objects
    /\ (/\ upload.outcome = "stored"
        /\ \A i \in Invocations : run[i].pc = "idle"
        /\ upload.key \in ReferenceValues(products, categories))
       => upload.key \in r2Objects

\* the calls of cleanupMediaFiles between setting and resetting the flag
Active == {i \in Invocations : run[i].pc # "idle"}

\* C15 (mutual exclusion per job): at most one call of cleanupMediaFiles is
\* between setting and resetting isCleanupRunning; a call rejected while the
\* flag is set leaves it set; the flag goes from false to true only when a call
\* is accepted and from true to false only when the accepted call ends.
C15_MutualExclusion ==
    /\ [](Cardinality(Active) <= 1)
    /\ [][/\ \A i \in Invocations :
               (Calls(i) /\ isCleanupRunning) =>
                   /\ isCleanupRunning'
                   /\ run'[i].outcome = "rejected"
                   /\ \A j \in Active : run'[j] = run[j]
          /\ (~isCleanupRunning /\ isCleanupRunning') =>
                \E i \in Invocations : Calls(i) /\ run'[i].outcome = "running"
          /\ (isCleanupRunning /\ ~isCleanupRunning') =>
                \E i \in Active : run'[i].pc = "idle" /\ run'[i].outcome \in {"completed", "aborted"}]_vars

\* a trigger was rejected while the accepted call waits for its document
\* updates, and the flag is still set
C15_Witness ==
    \E i, j \in Invocations :
        /\ run[i].outcome = "rejected"
        /\ run[j].pc = "awaitUpdates"
        /\ Active = {j}
        /\ isCleanupRunning

\* the number of delete calls that cover n keys in batches of 1000
BatchesFor(n) == (n + 999) \div 1000

\* C16 (batch failure isolation): a call in which a delete batch failed has
\* still issued one delete call for every batch of its orphaned keys, each batch
\* once, and has gone on to the dangling-reference cleanup and completed.
C16_BatchFailureIsolation ==
    \A i \in Invocations :
        (run[i].pc = "idle" /\ run[i].failed = {"delete"}) =>
            /\ Cardinality(CallsOf(i, {"delete"})) = BatchesFor(Len(run[i].orphanedR2Keys))
            /\ \A n, m \in CallsOf(i, {"delete"}) :
                  n # m => run[i].calls[n].keys # run[i].calls[m].keys
            /\ run[i].danglingDbKeys = DanglingDbKeys(run[i].dbMediaKeys, run[i].r2MediaKeys)
            /\ run[i].outcome = "completed"

\* C17 (attempted count): a call whose only failures, if any, are delete
\* batches returns as orphanedR2Files the number of orphaned keys it found.
C17_AttemptedCount ==
    \A i \in Invocations :
        (/\ run[i].pc = "idle"
         /\ run[i].outcome \in {"completed", "aborted"}
         /\ run[i].failed \subseteq {"delete"}) =>
            run[i].result.orphanedR2Files = Len(run[i].orphanedR2Keys)

\* the step in which an update of call i fails and Promise.all rejects
UpdateFails(i) == "update" \in run'[i].failed \ run[i].failed

\* C18 (cleanup group isolation): the updates of all groups are issued in the
\* step that starts the reference cleanup, before any of them settles; when one
\* of them fails, the documents keep what the others have written and the
\* others stay in flight; and a clean run that follows a run with a failed
\* update leaves no reference that was dangling at its start.
C18_GroupIsolation ==
    /\ [][\A i \in Invocations :
             /\ (run[i].pc # "awaitUpdates" /\ run'[i].pc = "awaitUpdates") =>
                   /\ {[group |-> o.group, keys |-> o.keys] :
                          o \in {x \in inflight' : x.inv = i /\ ~x.detached}}
                      = CleanupGroups(run'[i].danglingDbKeys)
                   /\ UNCHANGED <<products, categories>>
             /\ UpdateFails(i) =>
                   /\ UNCHANGED <<products, categories>>
                   /\ LET mine == {x \in inflight : x.inv = i /\ ~x.detached}
                      IN \E op \in mine :
                            inflight' = (inflight \ mine)
                                        \cup {[o EXCEPT !.detached = TRUE] : o \in mine \ {op}}]_vars
    /\ [](\A i \in Invocations :
             (CleanRun(i) /\ run[i].afterFailedUpdate) =>
                 \A v \in ReferenceValues(run[i].startProducts, run[i].startCategories) :
                     (UnderManagedPrefix(v) /\ v \notin run[i].startBucket)
                     => v \notin ReferenceValues(products, categories))

\* C19 (snapshot before mutation): in the calls a run issues, every find and
\* list call comes before the first delete call and the first document update;
\* the orphaned and dangling keys are the differences of the two snapshots,
\* whatever has happened to the stores since, and the snapshots and the
\* orphaned keys do not change once the deletes have started.
C19_SnapshotBeforeMutation ==
    /\ [](\A i \in Invocations :
             /\ \A m \in CallsOf(i, {"find", "list"}) :
                   \A n \in CallsOf(i, {"delete"} \cup UpdateOps) : m < n
             /\ (run[i].pc \in {"awaitDelete", "awaitUpdates"} \/ run[i].outcome = "completed") =>
                   Range(run[i].orphanedR2Keys) = Range(run[i].r2MediaKeys) \ run[i].dbMediaKeys
             /\ (run[i].pc = "awaitUpdates" \/ run[i].outcome = "completed") =>
                   run[i].danglingDbKeys = run[i].dbMediaKeys \ Range(run[i].r2MediaKeys))
    /\ [][\A i \in Invocations :
             run[i].pc \in {"awaitDelete", "awaitUpdates"} =>
                 /\ run'[i].dbMediaKeys = run[i].dbMediaKeys
                 /\ run'[i].r2MediaKeys = run[i].r2MediaKeys
                 /\ run'[i].orphanedR2Keys = run[i].orphanedR2Keys]_vars

\* a run completed with a delete call and a document update although an upload
\* request changed the stores while it ran
C19_Witness ==
    \E i \in Invocations :
        /\ run[i].outcome = "completed"
        /\ ~run[i].quiet
        /\ CallsOf(i, {"delete"}) # {}
        /\ CallsOf(i, UpdateOps) # {}
        /\ Range(run[i].r2MediaKeys) \ run[i].dbMediaKeys # r2Objects \ run[i].dbMediaKeys

\* the listing of call i is over
Listed(i) == run[i].pc \in {"awaitDelete", "awaitUpdates"} \/ run[i].outcome = "completed"

\* C20 (pagination completeness): a list call that follows a page of the same
\* prefix carries the continuation token of that page, and the next prefix
\* starts without a token once a page came without one; when nobody else
\* changed the bucket, the keys a finished listing has accumulated are exactly
\* the bucket's keys under the three prefixes, each key once.
C20_PaginationCompleteness ==
    /\ [](\A i \in Invocations : (Listed(i) /\ run[i].quiet) =>
             /\ Range(run[i].r2MediaKeys) = {k \in run[i].startBucket : UnderManagedPrefix(k)}
             /\ Len(run[i].r2MediaKeys) = Cardinality(Range(run[i].r2MediaKeys))
             /\ \A p \in SpecPrefixes : \E n \in CallsOf(i, {"list"}) :
                   run[i].calls[n].prefix = p /\ run[i].calls[n].token = NoKey)
    /\ [][\A i \in Invocations :
             (/\ run[i].pc = "awaitList"
              /\ run'[i].pc = "awaitList"
              /\ run'[i] # run[i]
              /\ run'[i] # Disturbed(run[i])) =>
                 LET last == run[i].calls[Len(run[i].calls)]
                     next == run'[i].calls[Len(run'[i].calls)]
                 IN /\ Len(run'[i].calls) = Len(run[i].calls) + 1
                    /\ next.op = "list"
                    /\ next.token = run'[i].continuationToken
                    /\ IF Truthy(next.token)
                       THEN /\ next.prefix = last.prefix
                            /\ next.token \in r2Objects
                            /\ next.token = run'[i].r2MediaKeys[Len(run'[i].r2MediaKeys)]
                       ELSE next.prefix = ManagedPrefixes[run[i].prefixIdx + 1]]_vars

\* the first prefix came in three pages, and a thumbnail listed under two
\* prefixes is in the accumulated keys once
C20_Witness ==
    \E i \in Invocations :
        /\ CleanRun(i)
        /\ Cardinality(CallsOf(i, {"list"})) = 5
        /\ Len(run[i].r2MediaKeys) = 4
        /\ Key(PRODUCT_THUMBNAIL_PREFIX, 1) \in Range(run[i].r2MediaKeys)

\* the values of a gallery that start with no managed prefix, in their order
ExternalImages(images) == FilterSeq(images, {k \in Range(images) : ~UnderManagedPrefix(k)})

\* C21 (external references ignored): a thumbnail or gallery value that starts
\* with no managed prefix is in no run's referenced key set, in no dangling set
\* and in no update filter, and no step of a run changes it.
C21_ExternalIgnored ==
    /\ [](\A i \in Invocations :
             /\ \A k \in run[i].dbMediaKeys \cup run[i].danglingDbKeys : UnderManagedPrefix(k)
             /\ \A n \in CallsOf(i, UpdateOps) :
                   \A k \in Range(run[i].calls[n].keys) : UnderManagedPrefix(k))
    /\ [][/\ \A id \in ProductIds :
               /\ ~UnderManagedPrefix(products[id].thumbnail) =>
                     products'[id].thumbnail = products[id].thumbnail
               /\ ExternalImages(products'[id].images) = ExternalImages(products[id].images)
          /\ \A id \in CategoryIds :
               ~UnderManagedPrefix(categories[id].thumbnail) =>
                   categories'[id].thumbnail = categories[id].thumbnail]_vars

\* a run pulled a dangling key out of a gallery that also holds an external
\* URL, next to an external thumbnail
C21_Witness ==
    \E i \in Invocations :
        /\ CleanRun(i)
        /\ run[i].startProducts["p1"].images = <<Key(PRODUCT_IMAGE_PREFIX, 1), Key(EXTERNAL_URL, 1)>>
        /\ run[i].startProducts["p1"].thumbnail = Key(EXTERNAL_URL, 1)
        /\ products["p1"].images = <<Key(EXTERNAL_URL, 1)>>
        /\ products["p1"].thumbnail = Key(EXTERNAL_URL, 1)
        /\ run[i].result.danglingSavedReferences = 1

\* the dangling keys of the updates that are in flight
KeysInFlight == UNION {o.keys : o \in inflight}

DeletedEntries == DOMAIN tempRun.startDir.entries \ DOMAIN tempRun.endDir.entries

\* C23 (temp per-file error isolation): a temp cleanup in which stat or unlink
\* of an entry failed has still scanned the directory, has deleted every other
\* regular file older than one hour, and returns the number of files it deleted.
C23_PerFileIsolation ==
    (tempRun.statFails \cup tempRun.unlinkFails # {}) =>
        /\ tempRun.outcome = "scanned"
        /\ \A n \in DOMAIN tempRun.startDir.entries :
              (/\ n \notin tempRun.statFails \cup tempRun.unlinkFails
               /\ tempRun.startDir.entries[n].kind = "file"
               /\ AgeAtScan(n) > 3600000)
              => n \in DeletedEntries
        /\ tempRun.result.filesDeleted = Cardinality(DeletedEntries)
        /\ ~isTempCleanupRunning

\* stat of the first entry failed, and the second entry, an old file, was deleted
C23_Witness ==
    /\ tempRun.statFails = {1}
    /\ DeletedEntries = {2}
    /\ tempRun.result.filesDeleted = 1

\* the bytes the named entries of the scanned directory take
RECURSIVE SizeOf(_)
SizeOf(names) ==
    IF names = {} THEN 0
    ELSE LET n == CHOOSE x \in names : TRUE
         IN tempRun.startDir.entries[n].size + SizeOf(names \ {n})

\* C24 (temp totals): the result of a temp cleanup has filesDeleted equal to
\* the number of files the run deleted and totalSize equal to the sum of the
\* sizes of those files; skipped directories and failed deletions add nothing.
C24_TempTotals ==
    (tempRun.outcome \notin {"none", "rejected"}) =>
        /\ tempRun.result.filesDeleted = Cardinality(DeletedEntries)
        /\ tempRun.result.totalSize = SizeOf(DeletedEntries)

\* the keys of the delete calls of call i, in the order of the calls
RECURSIVE KeysOfDeletes(_)
KeysOfDeletes(calls) ==
    IF calls = <<>> THEN <<>>
    ELSE (IF Head(calls).op = "delete" THEN Head(calls).keys ELSE <<>>) \o KeysOfDeletes(Tail(calls))

\* C25 (batch partition): without a failure a run issues ceil(n/1000) delete
\* calls for n orphaned keys and none for n = 0; a delete call is issued only
\* after the one before it has returned; the batches are consecutive slices of
\* the orphan list, all but the last of exactly 1000 keys, and together they
\* hold every orphaned key once.
C25_BatchPartition ==
    \A i \in Invocations :
        LET r == run[i]
            n == Len(r.orphanedR2Keys)
            deletes == CallsOf(i, {"delete"})
        IN /\ r.pc = "awaitDelete" =>
                 /\ Cardinality(deletes) = (r.i \div 1000) + 1
                 /\ r.calls[Len(r.calls)].op = "delete"
                 /\ KeysOfDeletes(r.calls) = SubSeq(r.orphanedR2Keys, 1, Min(r.i + 1000, n))
                 /\ Range(SubSeq(r.orphanedR2Keys, 1, r.i)) \cap r2Objects = {}
                 /\ Range(r.calls[Len(r.calls)].keys) \subseteq r2Objects
           /\ (r.outcome = "completed" /\ r.failed = {}) =>
                 /\ Cardinality(deletes) = (n + 999) \div 1000
                 /\ KeysOfDeletes(r.calls) = r.orphanedR2Keys
                 /\ \A c \in deletes :
                       Len(r.calls[c].keys) =
                          IF c = Len(r.calls) /\ n % 1000 # 0 THEN n % 1000 ELSE 1000
                 /\ n = 0 => deletes = {}

\* Scenario D: 2500 orphaned keys went out in batches of 1000, 1000 and 500
C25_Witness ==
    \E i \in Invocations :
        /\ run[i].outcome = "completed"
        /\ Len(run[i].orphanedR2Keys) = 2500
        /\ LET d == SubSeq(run[i].calls, Len(run[i].calls) - 2, Len(run[i].calls))
           IN <<d[1].op, d[2].op, d[3].op>> = <<"delete", "delete", "delete">>
              /\ <<Len(d[1].keys), Len(d[2].keys), Len(d[3].keys)>> = <<1000, 1000, 500>>
        /\ r2Objects = {}

\* C26 (run termination): when every call eventually returns, every accepted
\* call of cleanupMediaFiles eventually ends, completed with its counts or
\* aborted with {0, 0}, and isCleanupRunning eventually is false again; a call
\* that has ended is in no other state; a call of cleanupOldTempFiles has ended
\* and its flag is false whenever anything else can happen.
C26_RunTermination ==
    /\ \A i \in Invocations :
          (run[i].pc # "idle") ~>
              (run[i].pc = "idle" /\ run[i].outcome \in {"completed", "aborted"})
    /\ isCleanupRunning ~> ~isCleanupRunning
    /\ [](\A i \in Invocations :
             /\ run[i].pc = "idle" => run[i].outcome \in {"none", "rejected", "completed", "aborted"}
             /\ run[i].pc # "idle" => run[i].outcome = "running"
             /\ run[i].outcome = "aborted" => run[i].result = ZeroResult)
    /\ [](/\ ~isTempCleanupRunning
          /\ tempRun.outcome \in {"none", "rejected", "failed", "created", "empty", "scanned"}
          /\ tempRun.outcome = "failed" => tempRun.result = ZeroTemp)

\* a run has completed after a delete call and a document update, a temp
\* cleanup has found the staging directory empty, and both flags are false
C26_Witness ==
    /\ \E i \in Invocations :
          /\ run[i].outcome = "completed"
          /\ run[i].result = [orphanedR2Files |-> 1, danglingSavedReferences |-> 1]
    /\ tempRun.outcome = "empty"
    /\ ~isCleanupRunning
    /\ ~isTempCleanupRunning

\* call i waits for the result of its database query
Querying(i) == run[i].pc \in {"awaitProducts", "awaitCategories"}

\* C27 as stated (concurrent snapshot collection): the storage listing is
\* started together with the database query, so a run that waits for its
\* database query has a list call under way.
C27_ConcurrentSnapshot_Original ==
    \A i \in Invocations : Querying(i) => CallsOf(i, {"list"}) # {}

\* C27 as amended: the storage listing is started only after the database
\* query has completed; a run that waits for its database query has issued no
\* list call and holds no listed key, and every list call comes after both
\* find calls.
C27_SequentialSnapshot ==
    \A i \in Invocations :
        /\ Querying(i) => CallsOf(i, {"list"}) = {} /\ run[i].r2MediaKeys = <<>>
        /\ \A n \in CallsOf(i, {"list"}) :
              /\ CallsOf(i, {"find"}) = {1, 2}
              /\ n > 2

\* a run is listing the bucket with the referenced keys of its finished
\* database query in hand
C27_Witness ==
    \E i \in Invocations :
        /\ run[i].pc = "awaitList"
        /\ Cardinality(CallsOf(i, {"list"})) = 2
        /\ Cardinality(run[i].dbMediaKeys) = 3

\* call i has issued an update of this group whose filter holds key k
Cleans(i, group, k) ==
    \E n \in CallsOf(i, {group}) : k \in Range(run[i].calls[n].keys)

\* C28 (collector and cleaner cover the same fields): a run that has started
\* its reference cleanup has issued, for every dangling key, an update on each
\* field from which the collector took the key: a pull on Product.images, a
\* set-to-null on Product.thumbnail, a set-to-null on Category.thumbnail.
C28_SameFields ==
    \A i \in Invocations :
        ((run[i].pc = "awaitUpdates" \/ run[i].outcome = "completed") /\ run[i].quiet) =>
            \A k \in run[i].danglingDbKeys :
                /\ \A id \in ProductIds :
                      /\ k \in Range(run[i].startProducts[id].images) =>
                            Cleans(i, "pullProductImages", k)
                      /\ k = run[i].startProducts[id].thumbnail =>
                            Cleans(i, "nullProductThumbnail", k)
                /\ \A id \in CategoryIds :
                      k = run[i].startCategories[id].thumbnail =>
                          Cleans(i, "nullCategoryThumbnail", k)

\* C29 (a non-zero result means a fully completed run): a call that returned
\* a non-zero count has completed and none of its calls to the database or to
\* storage failed; a call that has issued a document update has sent all its
\* delete batches and none of them failed; a call in which a delete batch
\* failed has issued no document update and has left the documents alone.
C29_NonZeroMeansComplete ==
    \A i \in Invocations :
        /\ (run[i].pc = "idle" /\ run[i].result # ZeroResult) =>
              /\ run[i].outcome = "completed"
              /\ run[i].failed = {}
              /\ KeysOfDeletes(run[i].calls) = run[i].orphanedR2Keys
        /\ CallsOf(i, UpdateOps) # {} =>
              /\ run[i].failed \cap {"connect", "find", "list", "delete"} = {}
              /\ KeysOfDeletes(run[i].calls) = run[i].orphanedR2Keys
              /\ \A d \in CallsOf(i, {"delete"}) : \A u \in CallsOf(i, UpdateOps) : d < u
        /\ "delete" \in run[i].failed =>
              /\ CallsOf(i, UpdateOps) = {}
              /\ run[i].result = ZeroResult
              /\ run[i].quiet => products = run[i].startProducts /\ categories = run[i].startCategories

\* a run deleted an orphaned object, cleaned references of all three groups
\* and returned both counts
C29_Witness ==
    \E i \in Invocations :
        /\ CleanRun(i)
        /\ run[i].result.orphanedR2Files > 0
        /\ run[i].result.danglingSavedReferences = 3
        /\ Cardinality(CallsOf(i, UpdateOps)) = 3

\* C30 (no false dangling for in-flight uploads): as long as the object an
\* upload request stored has not been deleted, no run has the request's key
\* in its dangling set or in the filter of a document update, and the
\* reference the request wrote is still in the document.
C30_NoFalseDangling ==
    (upload.key \in r2Objects) =>
        /\ \A i \in Invocations :
              /\ upload.key \notin run[i].danglingDbKeys
              /\ \A n \in CallsOf(i, UpdateOps) : upload.key \notin Range(run[i].calls[n].keys)
              /\ (upload.key \in run[i].dbMediaKeys /\ Listed(i)) =>
                    upload.key \in Range(run[i].r2MediaKeys)
        /\ \A o \in inflight : upload.key \notin o.keys
        /\ upload.outcome = "stored" =>
              upload.key \in ReferenceValues(products, categories)

\* a run whose database query came after the request had written the
\* reference has listed the new object and completed, and the reference stays
C30_Witness ==
    \E i \in Invocations :
        /\ run[i].outcome = "completed"
        /\ ~run[i].quiet
        /\ upload.outcome = "stored"
        /\ upload.key \in run[i].dbMediaKeys
        /\ upload.key \in Range(run[i].r2MediaKeys)
        /\ upload.key \in r2Objects
        /\ upload.key \in ReferenceValues(products, categories)

====
